---- MODULE Spec2Model ----
(***************************************************************************)
(* The artifact lifecycle of ASLLandmarkModel (apps/ai-service/            *)
(* landmark_model.py), the bundle it keeps on disk, and the handlers of    *)
(* inference_server.py that drive the shared instance asl_model.           *)
(*                                                                         *)
(* Objects are abstracted to what the code branches on.  A network is      *)
(* [via, run, K, fitted]: the call that assigned it to self.model, the     *)
(* training run that built it, its number of output classes and whether    *)
(* fit() completed.  A label encoder is [via, run, classes] (sklearn keeps *)
(* classes_ sorted, so the class index of a letter is its rank in the      *)
(* set).  A scaler is [via, run].  via = 0 stands for None.                *)
(* Probabilities are integers in units of 1/ProbUnit.                      *)
(***************************************************************************)
EXTENDS Integers, Sequences, FiniteSets, TLC

VARIABLES LANDMARK_MODEL_AVAILABLE,
          model, label_encoder, scaler, is_trained,
          file_keras, file_h5, file_pkl,
          nextId, last, result,
          loop, probe

vars == <<LANDMARK_MODEL_AVAILABLE, model, label_encoder, scaler, is_trained,
          file_keras, file_h5, file_pkl, nextId, last, result,
          loop, probe>>

(* ------------------------------ bounds -------------------------------- *)

\* calls that build or move an artifact (train, load, save, restart)
MaxOps == 2
\* valid sample files per letter directory
MaxPerLetter == 4
\* a probability is n/ProbUnit
ProbUnit == 6
\* HTTP requests that reach the inference service in one run
MaxRequests == 3
\* sample files in one letter directory of a probed data directory
MaxFiles == 2
\* largest factor by which a landmark sample is scaled
MaxScale == 3
MaxSamples == 3
\* the fit is run with a patience and a number of epochs scaled down from
\* EarlyStopping(patience=15) and epochs=100, on losses in 0..MaxLoss
Patience == 2
MaxEpochs == 4
MaxLoss == 2
MaxCount == 7

Letters == {"A", "B", "C"}

Ord(l) == CASE l = "A" -> 1 [] l = "B" -> 2 [] OTHER -> 3

(* --------------------------- program constants ------------------------ *)

NumLandmarks == 21
NumFeatures == 63
TopN == 3
MiddleTip == 12

(* ------------------------------ values -------------------------------- *)

None_model == [via |-> 0, run |-> 0, K |-> 0, fitted |-> FALSE]
None_encoder == [via |-> 0, run |-> 0, classes |-> {}]
None_scaler == [via |-> 0, run |-> 0]

\* ASLLandmarkModel.__init__
NewInstance ==
    [model |-> None_model, label_encoder |-> None_encoder,
     scaler |-> None_scaler, is_trained |-> FALSE]

Self ==
    [model |-> model, label_encoder |-> label_encoder,
     scaler |-> scaler, is_trained |-> is_trained]

\* a network file: absent, unreadable ("corrupt") or a saved network
NoNetFile == [state |-> "absent", run |-> 0, K |-> 0, fitted |-> FALSE, save |-> 0]
BadNetFile == [state |-> "corrupt", run |-> 0, K |-> 0, fitted |-> FALSE, save |-> 0]

\* the preprocessors pickle: absent, unreadable, or a dict holding
\* 'label_encoder' and/or 'scaler'
NoPklFile ==
    [state |-> "absent", has_enc |-> FALSE, has_sc |-> FALSE,
     enc_run |-> 0, classes |-> {}, sc_run |-> 0, save |-> 0]
BadPklFile == [NoPklFile EXCEPT !.state = "corrupt"]

Disk == [keras |-> file_keras, h5 |-> file_h5, pkl |-> file_pkl]

RECURSIVE SumOver(_, _)
SumOver(d, S) ==
    IF S = {} THEN 0
    ELSE LET l == CHOOSE x \in S : TRUE IN d[l] + SumOver(d, S \ {l})

\* LabelEncoder: index of a letter among the sorted classes_
ClassIndex(l, classes) == Cardinality({m \in classes : Ord(m) < Ord(l)})

\* LabelEncoder.inverse_transform([idx])[0]; raises for an unseen index
HasLetter(enc, idx) == idx >= 0 /\ idx < Cardinality(enc.classes)
InverseTransform(enc, idx) ==
    CHOOSE l \in enc.classes : ClassIndex(l, enc.classes) = idx

(* ------------------------- ASLLandmarkModel.train ---------------------- *)

\* what a data directory can yield, as valid samples per letter: nothing,
\* a letter with a single sample, and MaxPerLetter samples of one, two or
\* three letters
DataOf(a, b, c) == [l \in Letters |-> CASE l = "A" -> a [] l = "B" -> b [] OTHER -> c]
Datasets ==
    { DataOf(0, 0, 0),
      DataOf(MaxPerLetter, 1, 0),
      DataOf(0, MaxPerLetter, 0),
      DataOf(MaxPerLetter, MaxPerLetter, 0),
      DataOf(MaxPerLetter, 0, MaxPerLetter),
      DataOf(MaxPerLetter, MaxPerLetter, MaxPerLetter) }

\* load_dataset: letters that have at least one valid sample, and len(X)
LettersOf(d) == {l \in Letters : d[l] > 0}
NumSamples(d) == SumOver(d, Letters)

\* train_test_split(test_size=0.2, stratify=y): n_test = ceil(0.2 * N),
\* n_train = N - n_test
NumTest(n) == (n + 4) \div 5
NumTrain(n) == n - NumTest(n)

\* the stratified split raises when a class has fewer than 2 members or a
\* partition is smaller than the number of classes
SplitFails(d) ==
    LET k == Cardinality(LettersOf(d))
        n == NumSamples(d)
    IN  \/ \E l \in LettersOf(d) : d[l] < 2
        \/ NumTrain(n) < k
        \/ NumTest(n) < k

\* environment faults a training run can meet after preprocessing
TrainFaults == {"none", "build", "fit", "evaluate"}

Raise(self, why) == [self |-> self, ok |-> FALSE, raised |-> why]
Return(self) == [self |-> self, ok |-> TRUE, raised |-> "none"]

\* preprocess_data: fit the encoder and the scaler only when the attribute
\* is None, otherwise transform with the one already there
EncoderAfter(self, d, id) ==
    IF self.label_encoder = None_encoder
    THEN [via |-> id, run |-> id, classes |-> LettersOf(d)]
    ELSE self.label_encoder

ScalerAfter(self, id) ==
    IF self.scaler = None_scaler
    THEN [via |-> id, run |-> id]
    ELSE self.scaler

\* LabelEncoder.transform raises on a letter it was not fitted on
EncodeFails(self, d) ==
    /\ self.label_encoder # None_encoder
    /\ ~(LettersOf(d) \subseteq self.label_encoder.classes)

\* build_model(63, num_classes), num_classes = len(np.unique(y_processed))
BuildModel(d, id) ==
    [via |-> id, run |-> id, K |-> Cardinality(LettersOf(d)), fitted |-> FALSE]

\* an encoded label that the network has no output for
LabelOutOfRange(enc, d) ==
    \E l \in LettersOf(d) : ClassIndex(l, enc.classes) >= Cardinality(LettersOf(d))

\* a train() that returns without setting the flag
MarkTrained_noop(self) == self

\* self.is_trained = True, the last statement of train() before its return
MarkTrained(self) == [self EXCEPT !.is_trained = TRUE]

\* the faults that can change the outcome of train() on this dataset
TrainFaultsOf(self, d) ==
    IF NumSamples(d) = 0 \/ EncodeFails(self, d) \/ SplitFails(d)
    THEN {"none"} ELSE TrainFaults

\* whether the fit checks labels matters only when one is out of range
StrictOf(self, d) ==
    IF NumSamples(d) > 0 /\ ~EncodeFails(self, d)
       /\ LabelOutOfRange(EncoderAfter(self, d, 0), d)
    THEN BOOLEAN ELSE {TRUE}

\* a train() that starts from a cleared instance
Train_resetsFirst(self, d, fault, strict, id) ==
    IF NumSamples(d) = 0 THEN Raise(NewInstance, "nodata")
    ELSE Return(MarkTrained(
            [NewInstance EXCEPT !.label_encoder = EncoderAfter(NewInstance, d, id),
                                !.scaler = ScalerAfter(NewInstance, id),
                                !.model = BuildModel(d, id)]))

\* train(data_directory): d is the dataset the directory yields, fault the
\* step an environment fault hits, strict whether the fit rejects an
\* out-of-range label (it does on CPU; on GPU the loss is NaN and fit returns)
Train(self, d, fault, strict, id) ==
    IF NumSamples(d) = 0 THEN Raise(self, "nodata")
    ELSE IF EncodeFails(self, d) THEN Raise(self, "encode")
    ELSE
      LET s1 == [self EXCEPT !.label_encoder = EncoderAfter(self, d, id),
                             !.scaler = ScalerAfter(self, id)]
          s2 == [s1 EXCEPT !.model = BuildModel(d, id)]
          s3 == [s2 EXCEPT !.model.fitted = TRUE]
      IN  IF SplitFails(d) THEN Raise(s1, "split")
          ELSE IF fault = "build" THEN Raise(s1, "build")
          ELSE IF fault = "fit"
                  \/ (strict /\ LabelOutOfRange(s1.label_encoder, d))
               THEN Raise(s2, "fit")
          ELSE IF fault = "evaluate" THEN Raise(s3, "evaluate")
          ELSE Return(MarkTrained(s3))

(* ----------------------- ASLLandmarkModel.save_model ------------------- *)

SaveFaults == {"none", "network", "open", "dump"}

\* save_model(filepath): the network file is written first, the pickle
\* second; open(..., 'wb') truncates the pickle before dump() writes it
SaveModel(self, disk, fault, id) ==
    IF self.model = None_model THEN [disk |-> disk, ok |-> FALSE]
    ELSE IF fault = "network" THEN [disk |-> disk, ok |-> FALSE]
    ELSE
      LET d1 == [disk EXCEPT !.keras =
                    [state |-> "ok", run |-> self.model.run, K |-> self.model.K,
                     fitted |-> self.model.fitted, save |-> id]]
          d2 == [d1 EXCEPT !.pkl = BadPklFile]
          d3 == [d1 EXCEPT !.pkl =
                    [state |-> "ok", has_enc |-> TRUE, has_sc |-> TRUE,
                     enc_run |-> self.label_encoder.run,
                     classes |-> self.label_encoder.classes,
                     sc_run |-> self.scaler.run, save |-> id]]
      IN  IF fault = "open" THEN [disk |-> d1, ok |-> FALSE]
          ELSE IF fault = "dump" THEN [disk |-> d2, ok |-> FALSE]
          ELSE [disk |-> d3, ok |-> TRUE]

(* ----------------------- ASLLandmarkModel.load_model ------------------- *)

NetFrom(f, id) == [via |-> id, run |-> f.run, K |-> f.K, fitted |-> f.fitted]
EncFrom(f, id) ==
    IF f.enc_run = 0 THEN None_encoder
    ELSE [via |-> id, run |-> f.enc_run, classes |-> f.classes]
ScalerFrom(f, id) ==
    IF f.sc_run = 0 THEN None_scaler ELSE [via |-> id, run |-> f.sc_run]

\* a load_model() without its outer except clause
LoadFailed_escapes(self) == [self |-> self, ok |-> FALSE, raised |-> "escaped"]

\* an outer handler that drops the network and leaves is_trained alone
LoadFailed_keepsTrained(self) ==
    [self |-> [self EXCEPT !.model = None_model], ok |-> FALSE, raised |-> "outer"]

\* the outer handler of load_model: is_trained = False, model = None
LoadFailed(self) ==
    [self |-> [self EXCEPT !.is_trained = FALSE, !.model = None_model],
     ok |-> FALSE, raised |-> "outer"]

\* inner handlers that re-raise into the outer handler instead of returning
InnerFailure_reraises(self) ==
    [self |-> [self EXCEPT !.is_trained = FALSE, !.model = None_model],
     ok |-> FALSE, raised |-> "inner"]

\* the inner handlers of load_model: tf.keras.models.load_model raised on a
\* file that exists; return False and touch nothing
InnerFailure(self) == Raise(self, "inner")

\* restoring the preprocessors once self.model holds the loaded network
LoadPreprocessors(s1, pkl, id) ==
    IF pkl.state # "ok" THEN LoadFailed(s1)
    ELSE IF ~pkl.has_enc THEN LoadFailed(s1)
    ELSE
      LET s2 == [s1 EXCEPT !.label_encoder = EncFrom(pkl, id)]
      IN  IF ~pkl.has_sc THEN LoadFailed(s2)
          ELSE Return([s2 EXCEPT !.scaler = ScalerFrom(pkl, id),
                                 !.is_trained = TRUE])

\* a load_model() that looks for the .h5 file first
LoadModel_h5first(self, disk, id) ==
    IF disk.h5.state # "absent"
    THEN IF disk.h5.state = "corrupt" THEN InnerFailure(self)
         ELSE LoadPreprocessors([self EXCEPT !.model = NetFrom(disk.h5, id)],
                                disk.pkl, id)
    ELSE IF disk.keras.state # "absent"
    THEN IF disk.keras.state = "corrupt" THEN InnerFailure(self)
         ELSE LoadPreprocessors([self EXCEPT !.model = NetFrom(disk.keras, id)],
                                disk.pkl, id)
    ELSE LoadFailed(self)

\* a load_model() that restores the preprocessors before it looks for a
\* network file
LoadModel_preprocessorsFirst(self, disk, id) ==
    LET r == LoadPreprocessors(self, disk.pkl, id) IN
    IF ~r.ok THEN r
    ELSE IF disk.keras.state = "ok"
    THEN Return([r.self EXCEPT !.model = NetFrom(disk.keras, id)])
    ELSE IF disk.keras.state = "absent" /\ disk.h5.state = "ok"
    THEN Return([r.self EXCEPT !.model = NetFrom(disk.h5, id)])
    ELSE IF disk.keras.state = "absent" /\ disk.h5.state = "absent"
    THEN LoadFailed(r.self)
    ELSE InnerFailure([r.self EXCEPT !.is_trained = self.is_trained])

\* load_model(filepath): .keras is preferred over .h5; a network file that
\* exists but cannot be read returns False from the inner handler
LoadModel(self, disk, id) ==
    IF disk.keras.state # "absent"
    THEN IF disk.keras.state = "corrupt" THEN InnerFailure(self)
         ELSE LoadPreprocessors([self EXCEPT !.model = NetFrom(disk.keras, id)],
                                disk.pkl, id)
    ELSE IF disk.h5.state # "absent"
    THEN IF disk.h5.state = "corrupt" THEN InnerFailure(self)
         ELSE LoadPreprocessors([self EXCEPT !.model = NetFrom(disk.h5, id)],
                                disk.pkl, id)
    ELSE LoadFailed(self)

(* ------------------------- ASLLandmarkModel.predict -------------------- *)

\* the shapes of the landmarks argument the code tells apart: n points, each
\* a list of c floats ("lists"), a dict with x, y, z ("dicts"), a dict that
\* lacks a key ("dicts_nokey"), a bare float ("floats"), or None
Inputs ==
    [fmt : {"lists"}, n : {0, 20, NumLandmarks}, c : {3}]
    \cup [fmt : {"lists"}, n : {NumFeatures}, c : {1}]
    \cup [fmt : {"dicts"}, n : {NumLandmarks}, c : {3}]
    \cup [fmt : {"dicts_nokey"}, n : {NumLandmarks}, c : {3}]
    \cup [fmt : {"floats"}, n : {NumFeatures}, c : {3}]
    \cup [fmt : {"none"}, n : {0}, c : {3}]

\* what the softmax layer of a K-class network can answer, as distributions
\* over 0..K-1: all mass on one class, the mass halved between two classes
\* (a top probability of exactly 0.5 when ProbUnit is even), and the mass
\* spread over all classes (a top probability below 0.5 from three classes on)
OneHot(K, i) == [c \in 0..(K - 1) |-> IF c = i THEN ProbUnit ELSE 0]
Halved(K, i, j) ==
    [c \in 0..(K - 1) |->
        IF c = i THEN ProbUnit \div 2
        ELSE IF c = j THEN ProbUnit - (ProbUnit \div 2) ELSE 0]
Spread(K) ==
    [c \in 0..(K - 1) |->
        IF c = 0 THEN ProbUnit - (K - 1) * (ProbUnit \div K) ELSE ProbUnit \div K]
Dists(K) ==
    {OneHot(K, i) : i \in 0..(K - 1)}
    \cup {Halved(K, ij[1], ij[2]) :
            ij \in {ij \in (0..(K - 1)) \X (0..(K - 1)) : ij[1] # ij[2]}}
    \cup {Spread(K)}

PredictFaults == {"none", "scaler", "network"}

\* len(feature_vector) after the extend loop
FlatLen(x) == IF x.fmt = "lists" THEN x.n * x.c ELSE x.n * 3

\* building feature_vector raises: landmarks[0] on None or an empty list,
\* landmark["x"] on a dict without the key, extend() on a float
ParseRaises(x) ==
    \/ x.fmt = "none"
    \/ x.n = 0
    \/ x.fmt = "dicts_nokey"
    \/ x.fmt = "floats"

\* np.argmax: the first index holding the maximum
ArgMax(p) ==
    CHOOSE i \in DOMAIN p :
        /\ \A j \in DOMAIN p : p[j] <= p[i]
        /\ \A j \in DOMAIN p : p[j] = p[i] => i <= j

\* np.argsort(p)[-3:][::-1]: ascending order (ties in index order, as the
\* insertion sort numpy uses below 17 elements leaves them), last three,
\* reversed
Before(p, j, i) == p[j] > p[i] \/ (p[j] = p[i] /\ j > i)
Top3Indices(p) ==
    LET K == Cardinality(DOMAIN p)
        m == IF K < TopN THEN K ELSE TopN
    IN  [r \in 1..m |->
            CHOOSE i \in DOMAIN p :
                Cardinality({j \in DOMAIN p : Before(p, j, i)}) = r - 1]

NoTop == << >>

\* no distribution: the forward pass did not run, or it raised
NoDist == [c \in {} |-> 0]

\* what a call returned: the fields of the dict, and whether the call got as
\* far as self.model.predict()
PredResult(kind, prediction, confidence, error, note, top, forward) ==
    [kind |-> kind, prediction |-> prediction, confidence |-> confidence,
     error |-> error, note |-> note, top_predictions |-> top,
     forward |-> forward]

NoResult ==
    [callee |-> "none", points |-> 0, features |-> 0, dist |-> NoDist,
     ret |-> PredResult("no_call", "", 0, FALSE, FALSE, NoTop, FALSE)]

\* confidence < 0.5
BelowThreshold(confidence) == 2 * confidence < ProbUnit

\* the body of the try block of predict; kind "exception" stands for an
\* exception leaving the block
PredictTry(self, x, p, fault) ==
    IF ParseRaises(x)
    THEN PredResult("exception", "", 0, TRUE, FALSE, NoTop, FALSE)
    ELSE IF FlatLen(x) # NumFeatures
    THEN PredResult("validation", "?", 0, TRUE, FALSE, NoTop, FALSE)
    ELSE IF self.scaler = None_scaler \/ fault = "scaler"
    THEN PredResult("exception", "", 0, TRUE, FALSE, NoTop, FALSE)
    ELSE IF fault = "network"
    THEN PredResult("exception", "", 0, TRUE, FALSE, NoTop, TRUE)
    ELSE
      LET predicted_class == ArgMax(p)
          confidence == p[predicted_class]
          top_3_indices == Top3Indices(p)
          top_3_predictions ==
              [r \in DOMAIN top_3_indices |->
                  [letter |-> InverseTransform(self.label_encoder, top_3_indices[r]),
                   confidence |-> p[top_3_indices[r]]]]
      IN  IF \E r \in DOMAIN top_3_indices :
                 ~HasLetter(self.label_encoder, top_3_indices[r])
          THEN PredResult("exception", "", 0, TRUE, FALSE, NoTop, TRUE)
          ELSE IF BelowThreshold(confidence)
          THEN PredResult("low_confidence", "?", confidence, FALSE, TRUE,
                          top_3_predictions, TRUE)
          ELSE PredResult("letter",
                          InverseTransform(self.label_encoder, predicted_class),
                          confidence, FALSE, FALSE, top_3_predictions, TRUE)

\* a predict() without its except clause
CatchNothing(r) == r

\* except Exception as e: return {"prediction": "?", "confidence": 0.0, "error": str(e)}
CatchAll(r) ==
    IF r.kind = "exception"
    THEN PredResult("error", "?", 0, TRUE, FALSE, NoTop, r.forward)
    ELSE r

\* a predict() that flattens and validates its argument before looking at
\* is_trained
PredictValidatingFirst(self, x, p, fault) ==
    IF ParseRaises(x) \/ FlatLen(x) # NumFeatures
    THEN CatchAll(PredictTry(self, x, p, fault))
    ELSE IF ~self.is_trained \/ self.model = None_model
    THEN PredResult("not_trained", "?", 0, TRUE, FALSE, NoTop, FALSE)
    ELSE CatchAll(PredictTry(self, x, p, fault))

\* predict(landmarks)
Predict(self, x, p, fault) ==
    IF ~self.is_trained \/ self.model = None_model
    THEN PredResult("not_trained", "?", 0, TRUE, FALSE, NoTop, FALSE)
    ELSE CatchAll(PredictTry(self, x, p, fault))

\* what a run keeps of a call: who was called, the shape of the argument
\* (number of points, flattened length; -1 when flattening raised), the
\* distribution the network answered, if it did, and the returned dict
Observed(callee, x, p, r) ==
    [callee |-> callee, points |-> x.n,
     features |-> IF ParseRaises(x) THEN -1 ELSE FlatLen(x),
     dist |-> IF r.forward /\ p # NoDist THEN p ELSE NoDist, ret |-> r]

\* the input reaches the scaler and the network
WellFormed(x) == ~ParseRaises(x) /\ FlatLen(x) = NumFeatures

\* the distributions the forward pass of the current network can produce
\* (none when the call does not get a distribution out of the network)
DistsOf(self, x, fault) ==
    IF self.model = None_model \/ ~self.is_trained \/ ~WellFormed(x)
       \/ fault # "none"
    THEN {NoDist}
    ELSE Dists(self.model.K)

\* a fault can only hit a call that gets as far as the scaler
FaultsOf(self, x) ==
    IF self.model = None_model \/ ~self.is_trained \/ ~WellFormed(x)
    THEN {"none"}
    ELSE PredictFaults

(* ------------------------------ the state ------------------------------ *)

\* a bundle left on disk by an earlier deployment
LegacyRun == MaxOps + 1
LegacyClasses == {"A", "B"}
LegacyNet ==
    [state |-> "ok", run |-> LegacyRun, K |-> Cardinality(LegacyClasses),
     fitted |-> TRUE, save |-> LegacyRun]
LegacyPkl ==
    [state |-> "ok", has_enc |-> TRUE, has_sc |-> TRUE, enc_run |-> LegacyRun,
     classes |-> LegacyClasses, sc_run |-> LegacyRun, save |-> LegacyRun]

\* what models/ can hold when the process starts: nothing, a legacy .h5
\* bundle, a bundle whose pickle lacks the scaler, a bundle whose network
\* file cannot be read
InitDisks ==
    { [keras |-> NoNetFile,  h5 |-> NoNetFile, pkl |-> NoPklFile],
      [keras |-> NoNetFile,  h5 |-> LegacyNet, pkl |-> LegacyPkl],
      [keras |-> LegacyNet,  h5 |-> NoNetFile,
       pkl |-> [LegacyPkl EXCEPT !.has_sc = FALSE]],
      [keras |-> BadNetFile, h5 |-> NoNetFile, pkl |-> LegacyPkl] }

\* the event loop of the service before any request has arrived, and no
\* function applied yet
IdleLoop == [pending |-> {}, executing |-> {}, arrived |-> 0, served |-> {}]
NoProbe == [fn |-> "none"]

\* the call that made the last step: which one, whether it returned normally
\* (True, for load_model), where it failed, and whether the instance was
\* Trained when it was made
Called(op, r, pre) ==
    [op |-> op, ok |-> r.ok, raised |-> r.raised, pre_trained |-> pre.is_trained]

SetSelf(s) ==
    /\ model' = s.model
    /\ label_encoder' = s.label_encoder
    /\ scaler' = s.scaler
    /\ is_trained' = s.is_trained

SetDisk(d) ==
    /\ file_keras' = d.keras
    /\ file_h5' = d.h5
    /\ file_pkl' = d.pkl

\* module startup of landmark_model.py: asl_model = ASLLandmarkModel(), then
\* load_model() when a network file exists
StartupLoad(disk, id) ==
    IF disk.keras.state # "absent" \/ disk.h5.state # "absent"
    THEN LoadModel(NewInstance, disk, id)
    ELSE [self |-> NewInstance, ok |-> FALSE, raised |-> "nofile"]

Init ==
    /\ \E disk \in InitDisks :
         /\ file_keras = disk.keras
         /\ file_h5 = disk.h5
         /\ file_pkl = disk.pkl
    /\ LANDMARK_MODEL_AVAILABLE \in BOOLEAN
    /\ model = NewInstance.model
    /\ label_encoder = NewInstance.label_encoder
    /\ scaler = NewInstance.scaler
    /\ is_trained = NewInstance.is_trained
    /\ nextId = 1
    /\ last = [op |-> "init", ok |-> TRUE, raised |-> "none", pre_trained |-> FALSE]
    /\ result = NoResult
    /\ loop = IdleLoop
    /\ probe = NoProbe

(* ------------------------ calls on the instance ------------------------ *)

\* predict() assigns no attribute and writes no file: a second call in a row
\* can reach no state that a single call does not, so a run observes one
\* predict result at a time
NoneObserved == result = NoResult

CallTrain ==
    /\ UNCHANGED <<loop, probe>>
    /\ LANDMARK_MODEL_AVAILABLE
    /\ nextId <= MaxOps
    /\ \E d \in Datasets :
         \E fault \in TrainFaultsOf(Self, d), strict \in StrictOf(Self, d) :
           LET r == Train(Self, d, fault, strict, nextId)
           IN  /\ SetSelf(r.self)
               /\ last' = Called("train", r, Self)
    /\ nextId' = nextId + 1
    /\ result' = NoResult
    /\ UNCHANGED <<LANDMARK_MODEL_AVAILABLE, file_keras, file_h5, file_pkl>>

CallLoadModel ==
    /\ UNCHANGED <<loop, probe>>
    /\ LANDMARK_MODEL_AVAILABLE
    /\ nextId <= MaxOps
    /\ LET r == LoadModel(Self, Disk, nextId)
       IN  /\ SetSelf(r.self)
           /\ last' = Called("load_model", r, Self)
    /\ nextId' = nextId + 1
    /\ result' = NoResult
    /\ UNCHANGED <<LANDMARK_MODEL_AVAILABLE, file_keras, file_h5, file_pkl>>

CallSaveModel ==
    /\ UNCHANGED <<loop, probe>>
    /\ LANDMARK_MODEL_AVAILABLE
    /\ nextId <= MaxOps
    /\ \E fault \in SaveFaults :
         LET r == SaveModel(Self, Disk, fault, nextId)
         IN  /\ SetDisk(r.disk)
             /\ last' = [op |-> "save_model", ok |-> r.ok,
                         raised |-> IF r.ok THEN "none" ELSE "save",
                         pre_trained |-> is_trained]
    /\ nextId' = nextId + 1
    /\ result' = NoResult
    /\ UNCHANGED <<LANDMARK_MODEL_AVAILABLE, model, label_encoder, scaler, is_trained>>

CallPredict_dropsScaler ==
    /\ UNCHANGED <<loop, probe>>
    /\ LANDMARK_MODEL_AVAILABLE
    /\ NoneObserved
    /\ \E x \in Inputs :
         \E fault \in FaultsOf(Self, x) :
           \E p \in DistsOf(Self, x, fault) :
             result' = Observed("predict", x, p, Predict(Self, x, p, fault))
    /\ scaler' = None_scaler
    /\ UNCHANGED <<LANDMARK_MODEL_AVAILABLE, model, label_encoder,
                   is_trained, file_keras, file_h5, file_pkl, nextId, last>>

\* asl_model.predict(landmarks)
CallPredict ==
    /\ UNCHANGED <<loop, probe>>
    /\ LANDMARK_MODEL_AVAILABLE
    /\ NoneObserved
    /\ \E x \in Inputs :
         \E fault \in FaultsOf(Self, x) :
           \E p \in DistsOf(Self, x, fault) :
             result' = Observed("predict", x, p, Predict(Self, x, p, fault))
    /\ UNCHANGED <<LANDMARK_MODEL_AVAILABLE, model, label_encoder, scaler,
                   is_trained, file_keras, file_h5, file_pkl, nextId, last>>

\* the process is restarted: the module is imported again
Restart ==
    /\ UNCHANGED <<loop, probe>>
    /\ LANDMARK_MODEL_AVAILABLE
    /\ nextId <= MaxOps
    /\ LET r == StartupLoad(Disk, nextId)
       IN  /\ SetSelf(r.self)
           /\ last' = Called("startup", r, NewInstance)
    /\ nextId' = nextId + 1
    /\ result' = NoResult
    /\ UNCHANGED <<LANDMARK_MODEL_AVAILABLE, file_keras, file_h5, file_pkl>>

(* -------------------- inference_server.py handlers -------------------- *)

\* POST /train-landmarks: train(), then save_model(); any exception becomes
\* {"success": False}
TrainThenSave(self, disk, d, fault, strict, sfault, id) ==
    LET t == Train(self, d, fault, strict, id)
        w == SaveModel(t.self, disk, sfault, id)
    IN  IF ~t.ok THEN [self |-> t.self, disk |-> disk, ok |-> FALSE, raised |-> t.raised]
        ELSE [self |-> t.self, disk |-> w.disk, ok |-> w.ok,
              raised |-> IF w.ok THEN "none" ELSE "save"]

\* a save fault can only hit a request whose training returned
SaveFaultsOf(self, d, fault, strict) ==
    IF Train(self, d, fault, strict, 0).ok THEN SaveFaults ELSE {"none"}

TrainLandmarks ==
    /\ UNCHANGED <<loop, probe>>
    /\ nextId <= MaxOps
    /\ IF ~LANDMARK_MODEL_AVAILABLE
       THEN /\ last' = [op |-> "train_landmarks", ok |-> FALSE,
                        raised |-> "unavailable", pre_trained |-> is_trained]
            /\ UNCHANGED <<model, label_encoder, scaler, is_trained,
                           file_keras, file_h5, file_pkl>>
       ELSE \E d \in Datasets :
              \E fault \in TrainFaultsOf(Self, d), strict \in StrictOf(Self, d) :
                \E sfault \in SaveFaultsOf(Self, d, fault, strict) :
                  LET r == TrainThenSave(Self, Disk, d, fault, strict, sfault, nextId)
                  IN  /\ SetSelf(r.self)
                      /\ SetDisk(r.disk)
                      /\ last' = Called("train_landmarks", r, Self)
    /\ nextId' = nextId + 1
    /\ result' = NoResult
    /\ UNCHANGED LANDMARK_MODEL_AVAILABLE

\* the body of POST /predict-landmarks; pydantic admits List[List[float]] only
HandlerInputs == {x \in Inputs : x.fmt = "lists"}

HandlerRefusal(kind) == PredResult(kind, "None", 0, TRUE, FALSE, NoTop, FALSE)

PredictLandmarksResult(available, self, x, p, fault) ==
    IF ~available THEN HandlerRefusal("handler_unavailable")
    ELSE IF ~self.is_trained THEN HandlerRefusal("handler_not_trained")
    ELSE IF x.n # NumLandmarks THEN HandlerRefusal("handler_validation")
    ELSE Predict(self, x, p, fault)

PredictLandmarks ==
    /\ UNCHANGED <<loop, probe>>
    /\ NoneObserved
    /\ \E x \in HandlerInputs :
         \E fault \in FaultsOf(Self, x) :
           \E p \in DistsOf(Self, x, fault) :
             result' = Observed("predict_landmarks", x, p,
                        PredictLandmarksResult(LANDMARK_MODEL_AVAILABLE, Self, x, p, fault))
    /\ UNCHANGED <<LANDMARK_MODEL_AVAILABLE, model, label_encoder, scaler,
                   is_trained, file_keras, file_h5, file_pkl, nextId, last>>

Next ==
    \/ CallTrain
    \/ CallLoadModel
    \/ CallSaveModel
    \/ CallPredict
    \/ Restart
    \/ TrainLandmarks
    \/ PredictLandmarks

Spec == Init /\ [][Next]_vars

(* ------------- inference_server.py: the service's event loop ----------- *)

\* The three endpoints are "async def" coroutines served by one uvicorn
\* event loop (uvicorn.run of a single process).  None of them awaits
\* anything: asl_model.train(), save_model() and predict() are plain blocking
\* calls, so a coroutine that has started keeps the loop until it returns.
\* loop.pending holds the requests accepted but not yet started,
\* loop.executing the train_landmarks coroutines that have started and not
\* returned, with the statement they are at, loop.served the responses sent.

RequestKinds == {"health", "predict", "train"}

\* a threadpool would start a handler whatever else is running
LoopFree_threadpool(l) == TRUE

\* the loop picks the next coroutine only when none is in the middle of its
\* body
LoopFree(l) == l.executing = {}

TrainingInProgress == loop.executing # {}

\* a request reaches the service
Arrive ==
    /\ loop.arrived < MaxRequests
    /\ \E kind \in RequestKinds :
         loop' = [loop EXCEPT
                    !.arrived = @ + 1,
                    !.pending = @ \cup {[id |-> loop.arrived + 1, kind |-> kind,
                                         during |-> TrainingInProgress]}]
    /\ UNCHANGED <<LANDMARK_MODEL_AVAILABLE, model, label_encoder, scaler,
                   is_trained, file_keras, file_h5, file_pkl, nextId, last,
                   result, probe>>

\* a response, and whether it was sent while the training run of another
\* request was in progress
Response(r, answer) ==
    [id |-> r.id, kind |-> r.kind, during |-> r.during,
     overlapped |-> \E e \in loop.executing : e.req # r, answer |-> answer]

\* GET /health
HealthStatus ==
    IF LANDMARK_MODEL_AVAILABLE /\ is_trained THEN "loaded"
    ELSE IF LANDMARK_MODEL_AVAILABLE THEN "failed" ELSE "unavailable"

HealthCheck_availableOnly ==
    IF LANDMARK_MODEL_AVAILABLE THEN "healthy" ELSE "degraded"

\* the "status" entry of the answer
HealthCheck ==
    IF LANDMARK_MODEL_AVAILABLE /\ is_trained THEN "healthy" ELSE "degraded"

HandleHealth(r) ==
    /\ r \in loop.pending
    /\ r.kind = "health"
    /\ LoopFree(loop)
    /\ loop' = [loop EXCEPT !.pending = @ \ {r},
                            !.served = @ \cup {Response(r, HealthCheck)}]
    /\ UNCHANGED <<LANDMARK_MODEL_AVAILABLE, model, label_encoder, scaler,
                   is_trained, file_keras, file_h5, file_pkl, nextId, last,
                   result, probe>>

\* POST /predict-landmarks with 21 points of 3 floats, the network answering
\* its first class
ProbeInput == [fmt |-> "lists", n |-> NumLandmarks, c |-> 3]
HandlePredict(r) ==
    /\ r \in loop.pending
    /\ r.kind = "predict"
    /\ LoopFree(loop)
    /\ LET p == IF is_trained /\ model # None_model
                THEN OneHot(model.K, 0) ELSE NoDist
           ret == PredictLandmarksResult(LANDMARK_MODEL_AVAILABLE, Self,
                                         ProbeInput, p, "none")
       IN  loop' = [loop EXCEPT !.pending = @ \ {r},
                                !.served = @ \cup {Response(r, ret.kind)}]
    /\ UNCHANGED <<LANDMARK_MODEL_AVAILABLE, model, label_encoder, scaler,
                   is_trained, file_keras, file_h5, file_pkl, nextId, last,
                   result, probe>>

\* POST /train-landmarks starts: without the model it answers at once,
\* otherwise it enters asl_model.train()
StartTrain(r) ==
    /\ r \in loop.pending
    /\ r.kind = "train"
    /\ LoopFree(loop)
    /\ nextId <= MaxOps
    /\ IF ~LANDMARK_MODEL_AVAILABLE
       THEN loop' = [loop EXCEPT !.pending = @ \ {r},
                                 !.served = @ \cup {Response(r, "unavailable")}]
       ELSE loop' = [loop EXCEPT !.pending = @ \ {r},
                                 !.executing = @ \cup {[req |-> r, at |-> "train"]}]
    /\ UNCHANGED <<LANDMARK_MODEL_AVAILABLE, model, label_encoder, scaler,
                   is_trained, file_keras, file_h5, file_pkl, nextId, last,
                   result, probe>>

\* asl_model.train(request.data_directory) runs to its end; an exception
\* ends the handler with {"success": False}
RunTrain(e) ==
    /\ e \in loop.executing
    /\ e.at = "train"
    /\ \E d \in Datasets :
         LET t == Train(Self, d, "none", TRUE, nextId)
         IN  /\ SetSelf(t.self)
             /\ last' = Called("train_landmarks", t, Self)
             /\ IF t.ok
                THEN loop' = [loop EXCEPT !.executing =
                                 (@ \ {e}) \cup {[req |-> e.req, at |-> "save"]}]
                ELSE loop' = [loop EXCEPT !.executing = @ \ {e},
                                 !.served = @ \cup {Response(e.req, t.raised)}]
    /\ UNCHANGED <<LANDMARK_MODEL_AVAILABLE, file_keras, file_h5, file_pkl,
                   nextId, result, probe>>

\* asl_model.save_model(model_path) runs to its end and the handler answers
RunSave(e) ==
    /\ e \in loop.executing
    /\ e.at = "save"
    /\ LET w == SaveModel(Self, Disk, "none", nextId)
       IN  /\ SetDisk(w.disk)
           /\ loop' = [loop EXCEPT !.executing = @ \ {e},
                          !.served = @ \cup {Response(e.req,
                                        IF w.ok THEN "success" ELSE "save")}]
    /\ nextId' = nextId + 1
    /\ UNCHANGED <<LANDMARK_MODEL_AVAILABLE, model, label_encoder, scaler,
                   is_trained, last, result, probe>>

Requests == [id : 1..MaxRequests, kind : RequestKinds, during : BOOLEAN]

Handle == \E r \in Requests : HandleHealth(r) \/ HandlePredict(r)
Start == \E r \in Requests : StartTrain(r)
Executions == [req : Requests, at : {"train", "save"}]
Run == \E e \in Executions : RunTrain(e) \/ RunSave(e)

ServiceNext == Arrive \/ Handle \/ Start \/ Run

ServiceSpec == Init /\ [][ServiceNext]_vars

(* ------------------ functions applied to enumerated inputs ------------- *)

\* Every action below applies one function of the program to one input and
\* keeps the input and the result in probe; the instance and the disk are
\* not touched.
Unprobed == probe = NoProbe

FrameOfProbe ==
    UNCHANGED <<LANDMARK_MODEL_AVAILABLE, model, label_encoder, scaler,
                is_trained, file_keras, file_h5, file_pkl, nextId, last,
                result, loop>>

(* ------------------- ASLLandmarkModel.load_dataset --------------------- *)

\* what a *.json file under a letter directory can hold: a sample with 21
\* landmarks of numeric x, y, z ("valid"); 18 or 22 landmarks ("short",
\* "long"); 21 landmarks one of which lacks "z" ("nokey"); text that is not
\* JSON ("unparsable"); JSON without "landmarks" ("nolandmarks"); 21
\* landmarks with x, y, z where one coordinate is a list ("nested")
FileKinds ==
    {"valid", "short", "long", "nokey", "unparsable", "nolandmarks", "nested"}

LoaderLetters == {"A", "B"}

\* a data directory: per letter directory, how many files of each kind
RECURSIVE CountOver(_, _)
CountOver(f, S) ==
    IF S = {} THEN 0
    ELSE LET k == CHOOSE x \in S : TRUE IN f[k] + CountOver(f, S \ {k})

LetterDirs ==
    {f \in [FileKinds -> 0..MaxFiles] : CountOver(f, FileKinds) <= MaxFiles}
Directories == [LoaderLetters -> LetterDirs]

\* the try block of the loop body: json.load, sample["landmarks"] and
\* landmark["x"], landmark["y"], landmark["z"] can raise; the except clause
\* prints and goes on
FileRaises(kind) == kind \in {"nokey", "unparsable", "nolandmarks"}

\* len(feature_vector): three entries per landmark
FeatureLen(kind) ==
    CASE kind = "short" -> 18 * 3
      [] kind = "long" -> 22 * 3
      [] OTHER -> NumLandmarks * 3

\* the file's feature_vector is appended to features
Appended(kind) == ~FileRaises(kind) /\ FeatureLen(kind) = NumFeatures

\* load_dataset(data_directory).  The rows are collected per file; the final
\* np.array(features) is outside every try block and raises ValueError
\* (inhomogeneous shape) on a row holding a list where numpy refuses ragged
\* arrays (1.24 and later), and builds an object array before that.
LoadDataset(dir, ragged_raises) ==
    LET rows == [l \in LoaderLetters |->
                   CountOver([k \in FileKinds |->
                                 IF Appended(k) THEN dir[l][k] ELSE 0], FileKinds)]
        has_nested == \E l \in LoaderLetters : dir[l]["nested"] > 0
    IN  IF has_nested /\ ragged_raises
        THEN [raised |-> TRUE, rows |-> [l \in LoaderLetters |-> 0], lens |-> {}]
        ELSE [raised |-> FALSE, rows |-> rows,
              lens |-> {FeatureLen(k) : k \in {k \in FileKinds :
                           Appended(k) /\ \E l \in LoaderLetters : dir[l][k] > 0}}]

ApplyLoadDataset ==
    /\ Unprobed
    /\ \E dir \in Directories, ragged_raises \in BOOLEAN :
         probe' = [fn |-> "load_dataset", dir |-> dir,
                   out |-> LoadDataset(dir, ragged_raises)]
    /\ FrameOfProbe

(* ----------------- ASLLandmarkModel.normalize_hand_pose ----------------- *)

\* points are <<x, y, z>> with integer coordinates; a normalized coordinate
\* is the exact fraction num/den
VSub(a, b) == <<a[1] - b[1], a[2] - b[2], a[3] - b[3]>>
VAdd(a, b) == <<a[1] + b[1], a[2] + b[2], a[3] + b[3]>>
VScale(k, a) == <<k * a[1], k * a[2], k * a[3]>>
Rat(n, d) == [num |-> n, den |-> d]
RatEq(a, b) == a.num * b.den = b.num * a.den

PointIds == 0..(NumLandmarks - 1)

\* the samples probed: the wrist, the middle finger tip and the thumb base
\* placed freely, the other points on the wrist.  The offsets of the middle
\* finger tip have a whole-number length (0, 2, 5, 3).
Wrists == {<<0, 0, 0>>, <<1, -1, 2>>}
TipOffsets == {<<0, 0, 0>>, <<0, 2, 0>>, <<3, 4, 0>>, <<2, 1, 2>>}
ThumbOffsets == {<<0, 0, 0>>, <<1, 0, 0>>, <<-1, 2, 1>>}
Translations == {<<0, 0, 0>>, <<1, 0, -2>>}
SampleOf(w, m, q) ==
    [i \in PointIds |->
        IF i = MiddleTip THEN VAdd(w, m)
        ELSE IF i = 1 THEN VAdd(w, q) ELSE w]

\* every point p mapped to s*p + t
Moved(sample, s, t) == [i \in PointIds |-> VAdd(VScale(s, sample[i]), t)]

\* np.linalg.norm: the root of the sum of squares, exact for the vectors
\* probed, whose length is a whole number (the whole part of the root
\* otherwise)
Norm(v) ==
    LET sq == v[1] * v[1] + v[2] * v[2] + v[3] * v[3]
    IN  CHOOSE r \in 0..sq : r * r <= sq /\ sq < (r + 1) * (r + 1)

\* a normalization that leaves the wrist where it is
Centered_uncentered(sample) == sample

\* landmarks_centered = landmarks - wrist
Centered(sample) == [i \in PointIds |-> VSub(sample[i], sample[0])]

\* normalize_hand_pose(landmarks): center on the wrist, divide by the
\* distance of the middle finger tip from the wrist unless that is zero,
\* flatten to 63 entries
NormalizeHandPose(sample) ==
    LET landmarks_centered == Centered(sample)
        middle_tip == landmarks_centered[MiddleTip]
        hand_size == Norm(middle_tip)
    IN  [k \in 1..NumFeatures |->
            LET i == (k - 1) \div 3
                c == ((k - 1) % 3) + 1
            IN  IF hand_size > 0
                THEN Rat(landmarks_centered[i][c], hand_size)
                ELSE Rat(landmarks_centered[i][c], 1)]

ApplyNormalizeHandPose ==
    /\ Unprobed
    /\ \E w \in Wrists, m \in TipOffsets, q \in ThumbOffsets,
          s \in 1..MaxScale, t \in Translations :
         LET sample == SampleOf(w, m, q)
         IN  probe' = [fn |-> "normalize_hand_pose", sample |-> sample,
                       s |-> s, t |-> t,
                       out |-> NormalizeHandPose(sample),
                       out_moved |-> NormalizeHandPose(Moved(sample, s, t))]
    /\ FrameOfProbe

(* --------------- ASLLandmarkModel.train: the class weights ------------- *)

\* the datasets probed: no, two or MaxPerLetter samples of each letter
WeightedDatasets ==
    {DataOf(a, b, c) : a, b, c \in {0, 2, MaxPerLetter}}

\* the encoder train() finds on the instance: None, or the one an earlier
\* train() fitted on some set of letters
PriorEncoders ==
    {None_encoder} \cup
    {[via |-> 1, run |-> 1, classes |-> C] : C \in (SUBSET Letters) \ {{}}}

\* np.unique(y_processed): the class indices the encoder gives the letters
\* of the dataset, in ascending order
Classes(enc, d) == {ClassIndex(l, enc.classes) : l \in LettersOf(d)}
NthClass(enc, d, j) ==
    CHOOSE c \in Classes(enc, d) :
        Cardinality({x \in Classes(enc, d) : x < c}) = j

\* compute_class_weight('balanced', classes=classes, y=y_processed):
\* n_samples / (n_classes * count), one weight per entry of classes
ClassWeights(enc, d) ==
    LET K == Cardinality(Classes(enc, d))
    IN  [j \in 0..(K - 1) |->
            Rat(NumSamples(d), K * d[InverseTransform(enc, NthClass(enc, d, j))])]

\* class_weight_dict = {i: weight for i, weight in enumerate(class_weights)}
ClassWeightDict(enc, d) ==
    LET class_weights == ClassWeights(enc, d)
    IN  [i \in DOMAIN class_weights |-> class_weights[i]]

\* train() up to the class weights: the dataset is not empty, the encoder
\* knows its letters and the stratified split succeeds
ApplyClassWeights ==
    /\ Unprobed
    /\ \E prior \in PriorEncoders, d \in WeightedDatasets :
         LET self == [NewInstance EXCEPT !.label_encoder = prior]
             enc == EncoderAfter(self, d, 2)
         IN  /\ NumSamples(d) > 0
             /\ ~EncodeFails(self, d)
             /\ ~SplitFails(d)
             /\ probe' = [fn |-> "class_weights", prior |-> prior, enc |-> enc,
                          d |-> d, class_weight_dict |-> ClassWeightDict(enc, d)]
    /\ FrameOfProbe

(* ---------------- backend/main.py: POST /predict-landmarks -------------- *)

\* what the call of the AI service can come to: no answer within the
\* timeout, no connection, an answer with an error status, a 200 answer
\* that is not JSON, or a 200 answer with one of the bodies predict_landmarks
\* of inference_server.py returns: a refusal (prediction null), "?" with a
\* confidence below the threshold, a letter with one at or above it
AiBody(prediction, confidence) ==
    [how |-> "body", status |-> 200,
     prediction |-> prediction, confidence |-> confidence]
AiFailure(how, status) ==
    [how |-> how, status |-> status, prediction |-> "None", confidence |-> 0]
AiOutcomes ==
    {AiFailure("timeout", 0), AiFailure("unreachable", 0),
     AiFailure("not_json", 200)}
    \cup {AiFailure("status", st) : st \in {422, 500, 503}}
    \cup {AiBody(HandlerRefusal("handler_not_trained").prediction, 0)}
    \cup {AiBody("?", c) : c \in {c \in 0..ProbUnit : BelowThreshold(c)}}
    \cup {AiBody(l, c) : l \in Letters, c \in {c \in 0..ProbUnit : ~BelowThreshold(c)}}

HttpAnswer(status, prediction, confidence) ==
    [status |-> status, prediction |-> prediction, confidence |-> confidence]

\* predict_asl_landmarks(request): httpx.TimeoutException becomes 408; every
\* other exception, the HTTPException raised for a non-200 answer and the
\* validation error of PredictionResponse(prediction=None) included, becomes
\* 500
PredictAslLandmarks(ai) ==
    IF ai.how = "timeout" THEN HttpAnswer(408, "None", 0)
    ELSE IF ai.how = "unreachable" THEN HttpAnswer(500, "None", 0)
    ELSE IF ai.status # 200 THEN HttpAnswer(500, "None", 0)
    ELSE IF ai.how = "not_json" THEN HttpAnswer(500, "None", 0)
    ELSE IF ai.prediction = "None" THEN HttpAnswer(500, "None", 0)
    ELSE HttpAnswer(200, ai.prediction, ai.confidence)

ApplyPredictAslLandmarks ==
    /\ Unprobed
    /\ \E ai \in AiOutcomes :
         probe' = [fn |-> "predict_asl_landmarks", ai |-> ai,
                   answer |-> PredictAslLandmarks(ai)]
    /\ FrameOfProbe

(* --------------- backend: /collect-sample, /collection-stats ------------- *)

\* request.letter is any string: a plain name, the empty string, or a
\* relative path into another letter's directory
PlainLetters == {"A", "B"}
NestedLetter == "A/B"
CollectLetters == PlainLetters \cup {"", NestedLetter}

\* DATA_DIR after DATA_DIR.mkdir(exist_ok=True): the letter directories in
\* it with the number of .json files directly in each, the .json files in
\* DATA_DIR itself and those one level further down
EmptyDataDir ==
    [made |-> {}, files |-> [l \in PlainLetters |-> 0], loose |-> 0, deep |-> 0]

\* POST /collect-sample: mkdir(exist_ok=True) without parents, then the file
\* <uuid4>.json written in that directory; any exception becomes status 500
CollectTrainingSample(tree, letter) ==
    IF letter \in PlainLetters
    THEN [tree |-> [tree EXCEPT !.made = @ \cup {letter},
                                !.files[letter] = @ + 1],
          success |-> TRUE]
    ELSE IF letter = ""
    THEN [tree |-> [tree EXCEPT !.loose = @ + 1], success |-> TRUE]
    ELSE IF "A" \in tree.made
    THEN [tree |-> [tree EXCEPT !.deep = @ + 1], success |-> TRUE]
    ELSE [tree |-> tree, success |-> FALSE]

\* GET /collection-stats: for every directory in DATA_DIR the number of
\* files that glob("*.json") finds in it, and their running total
GetCollectionStats(tree) ==
    LET stats == [l \in tree.made |-> tree.files[l]] IN
    [total_samples |-> SumOver(stats, tree.made),
     letter_stats |-> stats,
     letters_with_data |-> Cardinality(tree.made)]

Collecting == probe.fn = "collect_sample"

ApplyCollectTrainingSample ==
    /\ Unprobed \/ Collecting
    /\ LET before == IF Unprobed
                     THEN [tree |-> EmptyDataDir, calls |-> 0, succeeded |-> 0]
                     ELSE probe
       IN /\ before.calls < MaxSamples
          /\ \E letter \in CollectLetters :
               LET r == CollectTrainingSample(before.tree, letter) IN
               probe' = [fn |-> "collect_sample", tree |-> r.tree,
                         calls |-> before.calls + 1,
                         succeeded |-> before.succeeded
                                         + (IF r.success THEN 1 ELSE 0)]
    /\ FrameOfProbe

ApplyGetCollectionStats ==
    /\ Collecting
    /\ probe' = [fn |-> "collection_stats", tree |-> probe.tree,
                 calls |-> probe.calls, succeeded |-> probe.succeeded,
                 answer |-> GetCollectionStats(probe.tree)]
    /\ FrameOfProbe

(* ------------- ASLLandmarkModel.train: the fit with EarlyStopping -------- *)

\* the val_loss of every epoch that could run, as integers
ValLosses == [1..MaxEpochs -> 0..MaxLoss]

\* self.best of EarlyStopping at on_train_begin: above every loss
NoBest == MaxLoss + 1

\* EarlyStopping.on_epoch_end from epoch e on (monitor val_loss, min_delta 0):
\* an improvement is a loss strictly below self.best and resets self.wait;
\* otherwise self.wait grows and training stops once it reaches the patience.
\* The weights after an epoch are named by the number of the epoch.
RECURSIVE EpochsFrom(_, _, _, _, _)
EpochsFrom(losses, e, best, best_epoch, wait) ==
    IF e > MaxEpochs
    THEN [epochs |-> MaxEpochs, stopped |-> FALSE, best_epoch |-> best_epoch]
    ELSE IF losses[e] < best
    THEN EpochsFrom(losses, e + 1, losses[e], e, 0)
    ELSE IF wait + 1 >= Patience /\ e > 1
    THEN [epochs |-> e, stopped |-> TRUE, best_epoch |-> best_epoch]
    ELSE EpochsFrom(losses, e + 1, best, best_epoch, wait + 1)

\* self.model.fit(..., epochs=epochs, callbacks=[EarlyStopping(patience,
\* restore_best_weights=True), ...]): the epochs run and the weights the
\* network holds afterwards. The best weights are set back when the callback
\* stops the training; when the epochs run out, only a Keras whose callback
\* also restores in on_train_end sets them back.
Fit(losses, restores_on_train_end) ==
    LET r == EpochsFrom(losses, 1, NoBest, 0, 0) IN
    [epochs |-> r.epochs, stopped |-> r.stopped,
     weights |-> IF r.stopped \/ restores_on_train_end
                 THEN r.best_epoch ELSE r.epochs]

ApplyFit ==
    /\ Unprobed
    /\ \E losses \in ValLosses : \E restores_on_train_end \in BOOLEAN :
         probe' = [fn |-> "fit", losses |-> losses,
                   restores_on_train_end |-> restores_on_train_end,
                   ret |-> Fit(losses, restores_on_train_end)]
    /\ FrameOfProbe

(* ------------- ASLLandmarkModel.train: the stratified split -------------- *)

\* the number of valid samples load_dataset found for each letter
SplitDatasets == {d \in [Letters -> 0..MaxCount] : NumSamples(d) > 0}

\* sklearn's _approximate_mode(class_counts, n_draws): every class gets the
\* floor of its proportional share, and the draws still missing go to the
\* classes with the largest remainders, ties drawn at random
ApproximateMode(counts, n_draws) ==
    LET n == SumOver(counts, Letters)
        floored == [l \in Letters |-> (counts[l] * n_draws) \div n]
        remainder == [l \in Letters |-> (counts[l] * n_draws) % n]
        need_to_add == n_draws - SumOver(floored, Letters)
        picks == {S \in SUBSET Letters :
                    /\ Cardinality(S) = need_to_add
                    /\ \A i \in S : \A j \in Letters \ S :
                         remainder[i] >= remainder[j]}
    IN  {[l \in Letters |-> floored[l] + (IF l \in S THEN 1 ELSE 0)] :
            S \in picks}

\* train_test_split(X, y, test_size=0.2, random_state=42, stratify=y): it
\* raises, or gives every class its number of training and of test samples
StratifiedSplit(d) ==
    IF SplitFails(d) THEN {[ok |-> FALSE]}
    ELSE {[ok |-> TRUE, train |-> n_i, test |-> [l \in Letters |-> d[l] - n_i[l]]] :
            n_i \in ApproximateMode(d, NumTrain(NumSamples(d)))}

ApplyStratifiedSplit ==
    /\ Unprobed
    /\ \E d \in SplitDatasets : \E r \in StratifiedSplit(d) :
         probe' = [fn |-> "train_test_split", data |-> d, ret |-> r]
    /\ FrameOfProbe

FunctionsInit ==
    /\ Init
    /\ LANDMARK_MODEL_AVAILABLE
    /\ file_keras = NoNetFile
    /\ file_h5 = NoNetFile

FunctionsNext ==
    \/ ApplyLoadDataset
    \/ ApplyNormalizeHandPose
    \/ ApplyClassWeights
    \/ ApplyPredictAslLandmarks
    \/ ApplyStratifiedSplit
    \/ ApplyFit
    \/ ApplyGetCollectionStats
    \/ ApplyCollectTrainingSample

FunctionsSpec == FunctionsInit /\ [][FunctionsNext]_vars

(* ------------------------------- claims -------------------------------- *)

\* the last step was a call of train(), directly or from /train-landmarks,
\* that returned normally (the handler's save_model may still have failed)
TrainReturned(l) ==
    /\ l.op \in {"train", "train_landmarks"}
    /\ (l.ok \/ l.raised = "save")

\* the last step was a load_model() that returned True
LoadReturnedTrue(l) == l.op \in {"load_model", "startup"} /\ l.ok

\* the last step was a train() that raised after load_dataset had returned
\* a non-empty dataset
TrainFailedAfterLoading(l) ==
    /\ l.op \in {"train", "train_landmarks"}
    /\ l.raised \in {"encode", "split", "build", "fit", "evaluate"}

\* C1 as stated: on one instance (a restart makes a new one), once is_trained
\* is true no call of train, load_model, save_model or predict makes it false.
C1_OnceTrainedStaysTrained ==
    [][(is_trained /\ last'.op # "startup") => is_trained']_vars

\* C1 amended: on one instance is_trained goes from true to false only in a
\* load_model() that fails through its outer handler (no network file, or
\* the preprocessors file missing, unreadable or incomplete); every other
\* call, a failed train() and a load_model() that fails reading the network
\* file included, leaves a Trained instance Trained.
C1_UntrainedOnlyByOuterLoadFailure ==
    [][(is_trained /\ ~is_trained' /\ last'.op # "startup")
         => (last'.op = "load_model" /\ last'.raised = "outer")]_vars

C1_Witness ==
    /\ last.op = "load_model"
    /\ last.raised = "inner"
    /\ last.pre_trained
    /\ is_trained

\* C2: a load_model() that fails on an Untrained instance leaves it Untrained
\* with model, label_encoder and scaler exactly as they were before the call.
C2_FailedLoadRetainsNothing ==
    [][(~is_trained /\ last'.op = "load_model" /\ ~last'.ok)
         => /\ ~is_trained'
            /\ model' = model
            /\ label_encoder' = label_encoder
            /\ scaler' = scaler]_vars

\* C3: a fresh instance is Untrained; is_trained goes from false to true only
\* in a step where train() returns normally or load_model() returns True;
\* and every such step ends with is_trained true.
C3_TrainedOnlyBySuccess ==
    /\ ~is_trained
    /\ [][(~is_trained /\ is_trained')
            => (TrainReturned(last') \/ LoadReturnedTrue(last'))]_vars
    /\ []((TrainReturned(last) \/ LoadReturnedTrue(last)) => is_trained)

C3_Witness ==
    /\ last.op = "train"
    /\ last.ok
    /\ ~last.pre_trained
    /\ is_trained

\* C4: whenever predict() can run a forward pass (is_trained and model set),
\* the network, the label encoder and the scaler were assigned by the same
\* train() run or the same load_model() call.
C4_OneOrigin ==
    (is_trained /\ model # None_model)
        => (model.via = label_encoder.via /\ model.via = scaler.via)

\* C5: a train() that succeeds on a Trained instance leaves a network, a
\* label encoder and a scaler that were all fitted by this run.
C5_RetrainReplacesAll ==
    (TrainReturned(last) /\ last.pre_trained)
        => /\ model.run = nextId - 1
           /\ label_encoder.run = nextId - 1
           /\ scaler.run = nextId - 1

\* C6: a train() that fails after the dataset was loaded leaves model,
\* label_encoder, scaler and is_trained as they were, and /train-landmarks
\* then writes no bundle file.
C6_FailedTrainChangesNothing ==
    [][TrainFailedAfterLoading(last')
         => /\ model' = model
            /\ label_encoder' = label_encoder
            /\ scaler' = scaler
            /\ is_trained' = is_trained
            /\ file_keras' = file_keras
            /\ file_pkl' = file_pkl]_vars

\* the results predict() gives for a rejected call
NotTrainedFailure(r) ==
    /\ r.kind = "not_trained"
    /\ r.prediction = "?"
    /\ r.confidence = 0
    /\ r.error
ValidationFailure(r) ==
    /\ r.kind \in {"validation", "error"}
    /\ r.prediction = "?"
    /\ r.confidence = 0
    /\ r.error

\* C7: predict() on an Untrained instance reports the not-trained failure for
\* every input, well-formed or not, and runs no forward pass; so does the
\* /predict-landmarks handler, before it looks at the number of landmarks.
C7_UntrainedPredictIsNotTrained ==
    /\ (result.callee = "predict" /\ ~is_trained)
          => (NotTrainedFailure(result.ret) /\ ~result.ret.forward)
    /\ (result.callee = "predict_landmarks" /\ LANDMARK_MODEL_AVAILABLE
          /\ ~is_trained)
          => (result.ret.kind = "handler_not_trained" /\ ~result.ret.forward)

C7_Witness ==
    /\ result.callee = "predict"
    /\ ~is_trained
    /\ result.features # NumFeatures
    /\ NotTrainedFailure(result.ret)

\* C8: predict() on a Trained instance reports a failure with "?" and an
\* error, and runs no forward pass, for every input whose number of points
\* is not 21 or whose flattened length is not 63.
C8_TrainedPredictValidates ==
    (/\ result.callee = "predict"
     /\ is_trained /\ model # None_model
     /\ (result.points # NumLandmarks \/ result.features # NumFeatures))
        => (ValidationFailure(result.ret) /\ ~result.ret.forward)

\* C9: for every distribution the network answers, predict() returns "?"
\* with a non-empty list of alternatives when the top probability is below
\* 0.5, and the letter of the arg-max class when it is 0.5 or more.
C9_ThresholdDecides ==
    (result.callee = "predict" /\ result.dist # NoDist)
        => LET p == result.dist
               top == p[ArgMax(p)]
           IN  IF BelowThreshold(top)
               THEN /\ result.ret.prediction = "?"
                    /\ Len(result.ret.top_predictions) > 0
               ELSE /\ result.ret.kind = "letter"
                    /\ HasLetter(label_encoder, ArgMax(p))
                    /\ result.ret.prediction = InverseTransform(label_encoder, ArgMax(p))

\* C10: predict() never raises: every call returns a dict with a prediction
\* and a confidence, and a call that met an internal error (the argument
\* could not be flattened, the scaler or the network failed, the encoder has
\* no letter for a class) returns "?", 0.0 and an error.
C10_PredictNeverRaises ==
    result.callee = "predict"
        => /\ result.ret.kind \in
                {"not_trained", "validation", "error", "low_confidence", "letter"}
           /\ result.ret.confidence \in 0..ProbUnit
           /\ result.ret.prediction \in Letters \cup {"?"}
           /\ (result.ret.kind = "error"
                 => /\ result.ret.prediction = "?"
                    /\ result.ret.confidence = 0
                    /\ result.ret.error)

C10_Witness ==
    /\ result.callee = "predict"
    /\ result.ret.kind = "error"
    /\ result.ret.forward
    /\ result.ret.prediction = "?"

\* C11: while a /train-landmarks request is being executed, a /health or
\* /predict-landmarks request that has arrived can be handled to completion:
\* in every state with a training run in progress, handling each waiting
\* health or predict request is enabled.
C11_ServedDuringTraining ==
    \A r \in loop.pending :
        (TrainingInProgress /\ r.kind \in {"health", "predict"})
            => ENABLED (HandleHealth(r) \/ HandlePredict(r))

\* C12: at most one train_landmarks execution is in progress at a time, a
\* request that arrives meanwhile waits, and no request is answered between
\* the steps of a training run.
C12_OneTrainingAtATime ==
    /\ Cardinality(loop.executing) <= 1
    /\ \A a \in loop.served : ~a.overlapped

C12_Witness ==
    /\ TrainingInProgress
    /\ \E e \in loop.executing : e.at = "save"
    /\ \E r \in loop.pending : r.kind = "train" /\ r.during

\* the instance after the step
SelfAfter ==
    [model |-> model', label_encoder |-> label_encoder',
     scaler |-> scaler', is_trained |-> is_trained']

\* the last call wrote the bundle of a Trained instance in full
SavedTrained(l) == l.op \in {"save_model", "train_landmarks"} /\ l.ok /\ is_trained

\* C13: save_model(P) on a Trained instance followed by load_model(P) on a
\* fresh instance returns True and gives the fresh instance the same network,
\* label encoder and scaler, so that predict() answers the same on both for
\* every input, distribution of the network and fault.
C13_RoundTrip ==
    [][(SavedTrained(last) /\ last'.op = "startup")
        => /\ last'.ok
           /\ is_trained'
           /\ model'.run = model.run /\ model'.K = model.K
           /\ model'.fitted = model.fitted
           /\ label_encoder'.run = label_encoder.run
           /\ label_encoder'.classes = label_encoder.classes
           /\ scaler'.run = scaler.run
           /\ \A x \in Inputs, fault \in PredictFaults, p \in Dists(model.K) :
                 Predict(SelfAfter, x, p, fault) = Predict(Self, x, p, fault)]_vars

C13_Witness ==
    /\ last.op = "startup" /\ last.ok /\ is_trained
    /\ file_keras.save \in 1..MaxOps
    /\ file_pkl.save = file_keras.save
    /\ model.run = file_keras.run
    /\ label_encoder.run = file_pkl.enc_run

\* load_model() was called in the last step (at startup only when a network
\* file exists)
LoadCalled(l) ==
    l.op = "load_model" \/ (l.op = "startup" /\ l.raised # "nofile")

\* C14: load_model() never raises: it returns through a return statement of
\* its own, False whenever no network file exists or a file cannot be read
\* or lacks a key, and True only with network, encoder and scaler all
\* restored by this call.
C14_LoadReturnsBoolean ==
    LoadCalled(last) =>
        /\ last.raised \in {"none", "inner", "outer"}
        /\ last.ok <=> last.raised = "none"
        /\ (file_keras.state = "absent" /\ file_h5.state = "absent") => ~last.ok
        /\ (file_keras.state = "corrupt" \/ file_pkl.state # "ok"
              \/ ~file_pkl.has_enc \/ ~file_pkl.has_sc) => ~last.ok
        /\ last.ok => /\ is_trained
                      /\ model # None_model
                      /\ label_encoder # None_encoder
                      /\ scaler # None_scaler
                      /\ model.via = nextId - 1
                      /\ label_encoder.via = nextId - 1
                      /\ scaler.via = nextId - 1

C14_Witness ==
    /\ last.op = "load_model" /\ ~last.ok
    /\ file_keras.state = "ok"
    /\ file_pkl.state = "absent"
    /\ ~is_trained

\* C17: a train() on a directory that yields no valid sample raises before
\* it changes anything: model, label_encoder, scaler and is_trained are what
\* they were, on an Untrained and on a Trained instance.
C17_NoDataChangesNothing ==
    [][(last'.op \in {"train", "train_landmarks"} /\ last'.raised = "nodata")
        => /\ ~last'.ok
           /\ model' = model
           /\ label_encoder' = label_encoder
           /\ scaler' = scaler
           /\ is_trained' = is_trained]_vars

C17_Witness ==
    /\ last.op = "train" /\ last.raised = "nodata"
    /\ last.pre_trained /\ is_trained /\ model # None_model

\* the file parses and holds 21 landmarks with x, y and z
Holds21(kind) == kind \in {"valid", "nested"}

\* C15: for every set of sample files, load_dataset() does not raise and
\* returns one row per file that parses and holds 21 landmarks with x, y and
\* z, no row for any other file, and only rows of length 63.
C15_LoaderSkipsBadFiles ==
    probe.fn = "load_dataset" =>
        /\ ~probe.out.raised
        /\ \A l \in LoaderLetters :
              probe.out.rows[l] =
                  CountOver([k \in FileKinds |->
                               IF Holds21(k) THEN probe.dir[l][k] ELSE 0], FileKinds)
        /\ probe.out.lens \subseteq {NumFeatures}

\* C16: load_dataset() fails with a data error whenever the directory yields
\* no valid sample.
C16_EmptyDatasetFails ==
    (/\ probe.fn = "load_dataset"
     /\ \A l \in LoaderLetters, k \in FileKinds :
           Holds21(k) => probe.dir[l][k] = 0)
        => probe.out.raised

\* both results of a normalize_hand_pose probe are the same 63 numbers
SameVector(a, b) == \A k \in 1..NumFeatures : RatEq(a[k], b[k])

\* C18 as stated: normalize_hand_pose gives the same vector for a sample and
\* for the sample with every point mapped to s*p + t, for every sample,
\* translation t and scale s > 0, point 12 on the wrist included.
C18_InvariantForEverySample ==
    probe.fn = "normalize_hand_pose" => SameVector(probe.out, probe.out_moved)

\* C18 amended: the result is unchanged by every translation, and by every
\* scale s > 0 when point 12 is off the wrist; when point 12 is on the wrist
\* the division is skipped and the result of the scaled sample is s times
\* the result of the original.
C18_InvariantOffTheWrist ==
    probe.fn = "normalize_hand_pose" =>
        IF probe.sample[MiddleTip] # probe.sample[0]
        THEN SameVector(probe.out, probe.out_moved)
        ELSE \A k \in 1..NumFeatures :
                RatEq(probe.out_moved[k],
                      Rat(probe.s * probe.out[k].num, probe.out[k].den))

C18_Witness ==
    /\ probe.fn = "normalize_hand_pose"
    /\ probe.sample[MiddleTip] # probe.sample[0]
    /\ probe.sample[1] # probe.sample[0]
    /\ probe.s > 1
    /\ probe.t # <<0, 0, 0>>
    /\ probe.out[4].num # 0
    /\ SameVector(probe.out, probe.out_moved)

\* C19: the weight train() passes to the fit for class index c satisfies
\* weight_c * K * n_c = N, n_c being the number of samples of the letter
\* encoded as c, K the number of classes and N the number of samples.
C19_BalancedWeights ==
    probe.fn = "class_weights" =>
        \A l \in LettersOf(probe.d) :
            LET c == ClassIndex(l, probe.enc.classes)
                K == Cardinality(LettersOf(probe.d))
                w == probe.class_weight_dict
            IN  /\ c \in DOMAIN w
                /\ w[c].num * K * probe.d[l] = NumSamples(probe.d) * w[c].den

\* C20: the backend answers a well-formed /predict-landmarks request with
\* status 200 or 500 whatever the AI service does, and a 200 answer carries
\* a prediction and a confidence between 0.0 and 1.0.
C20_Status200Or500 ==
    probe.fn = "predict_asl_landmarks" =>
        /\ probe.answer.status \in {200, 500}
        /\ probe.answer.status = 200 =>
              /\ probe.answer.prediction \in Letters \cup {"?"}
              /\ probe.answer.confidence \in 0..ProbUnit

\* GET /health of the backend: the status it answers
BackendHealthCheck == "healthy"

HealthAnswered(r) ==
    /\ r \in loop.pending
    /\ r.kind = "health"
    /\ r \notin loop'.pending

\* C21: every answer of a health endpoint carries the status "healthy" or
\* "degraded"; the AI service answers "healthy" exactly when the landmark
\* model is available and is_trained is true at the time of the answer, and
\* "degraded" otherwise.
C21_HealthStatus ==
    [][/\ BackendHealthCheck \in {"healthy", "degraded"}
       /\ \A r \in Requests :
             HealthAnswered(r) =>
               \E a \in loop'.served \ loop.served :
                  /\ a.id = r.id
                  /\ a.answer \in {"healthy", "degraded"}
                  /\ a.answer = "healthy" <=>
                        (LANDMARK_MODEL_AVAILABLE /\ is_trained)
                  /\ a.answer = "degraded" <=>
                        ~(LANDMARK_MODEL_AVAILABLE /\ is_trained)]_vars

\* a health check answered "healthy" after a training request made the
\* model trained, and one answered "degraded" before it
C21_Witness ==
    /\ \E a \in loop.served : a.kind = "health" /\ a.answer = "healthy"
    /\ \E a \in loop.served : a.kind = "health" /\ a.answer = "degraded"

\* C22: after any sequence of /collect-sample calls, /collection-stats
\* answers an integer total_samples that is the sum of the counts in
\* letter_stats and the number of collect-sample calls that reported success.
C22_StatsCountSuccesses ==
    probe.fn = "collection_stats" =>
        /\ probe.answer.total_samples \in Nat
        /\ probe.answer.total_samples
             = SumOver(probe.answer.letter_stats,
                       DOMAIN probe.answer.letter_stats)
        /\ probe.answer.total_samples = probe.succeeded

\* predict() got a distribution out of the network and returned alternatives
ReturnedAlternatives ==
    /\ result.callee = "predict"
    /\ result.ret.kind \in {"letter", "low_confidence"}
    /\ result.dist # NoDist

\* C23: for every distribution over K classes the alternatives predict()
\* returns are the min(3, K) classes of highest probability, in descending
\* order of probability, and of two classes of equal probability the one
\* with the lower class index (the earlier letter of the sorted classes)
\* comes first.
C23_TopThreeLowerIndexFirst ==
    ReturnedAlternatives =>
        LET p == result.dist
            top == result.ret.top_predictions
            K == Cardinality(DOMAIN p)
        IN  /\ Len(top) = (IF K < TopN THEN K ELSE TopN)
            /\ \A r \in DOMAIN top : \A s \in DOMAIN top :
                 r < s =>
                   \/ top[r].confidence > top[s].confidence
                   \/ /\ top[r].confidence = top[s].confidence
                      /\ Ord(top[r].letter) < Ord(top[s].letter)
            /\ \A c \in DOMAIN p : \A r \in DOMAIN top :
                 p[c] > top[r].confidence =>
                   \E s \in DOMAIN top : s < r /\ top[s].confidence = p[c]

\* C29: whenever predict() returns a letter, that letter is the letter of the
\* first entry of the returned top_predictions and the returned confidence is
\* that entry's confidence, tied probabilities included.
C29_LetterIsFirstAlternative ==
    (ReturnedAlternatives /\ result.ret.kind = "letter") =>
        /\ result.ret.top_predictions # NoTop
        /\ result.ret.top_predictions[1].letter = result.ret.prediction
        /\ result.ret.top_predictions[1].confidence = result.ret.confidence

\* the validation loss of epoch e is no improvement on the epochs before it
NoImprovementAt(losses, e) ==
    \E j \in 1..(e - 1) : losses[j] <= losses[e]

\* epoch e ends a run of Patience epochs without improvement
PatienceExhaustedAt(losses, e) ==
    /\ e > Patience
    /\ \A k \in (e - Patience + 1)..e : NoImprovementAt(losses, k)

\* C24: for every sequence of validation losses the training ends after at
\* most max_epochs epochs, at the first epoch at which the validation loss
\* has not improved for patience consecutive epochs if there is one, and the
\* weights kept are those of the epoch with the best validation loss seen.
C24_EarlyStoppingKeepsBest ==
    probe.fn = "fit" =>
        LET losses == probe.losses
            ret == probe.ret
            exhausted == {e \in 1..MaxEpochs : PatienceExhaustedAt(losses, e)}
        IN  /\ ret.epochs \in 1..MaxEpochs
            /\ ret.epochs \in exhausted \/ (exhausted = {} /\ ret.epochs = MaxEpochs)
            /\ \A e \in exhausted : ret.epochs <= e
            /\ ret.weights \in 1..ret.epochs
            /\ \A e \in 1..ret.epochs : losses[ret.weights] <= losses[e]

\* a network file that load_model() can read: the .keras file, or the .h5
\* file when there is no .keras file
ReadableNetFile ==
    \/ file_keras.state = "ok"
    \/ file_keras.state = "absent" /\ file_h5.state = "ok"

\* C25: load_model(P) restores the network from P_model.keras when that file
\* exists and from P_model.h5 only when it does not; it assigns a
\* preprocessor only after a network was restored; and it fails when neither
\* network file exists or the preprocessors file is absent or corrupt.
C25_LoadOrder ==
    last.op = "load_model" =>
        /\ last.ok =>
             /\ ReadableNetFile
             /\ model = (IF file_keras.state # "absent"
                         THEN NetFrom(file_keras, nextId - 1)
                         ELSE NetFrom(file_h5, nextId - 1))
        /\ (label_encoder.via = nextId - 1 \/ scaler.via = nextId - 1)
             => ReadableNetFile
        /\ (file_keras.state = "absent" /\ file_h5.state = "absent")
             => (~last.ok /\ last.raised = "outer")
        /\ file_pkl.state # "ok" => ~last.ok

\* load_model() restored the network from the .h5 file, there being no
\* .keras file, and then the preprocessors
C25_Witness ==
    /\ last.op = "load_model" /\ last.ok
    /\ file_keras.state = "absent"
    /\ model = NetFrom(file_h5, nextId - 1)
    /\ label_encoder.via = nextId - 1

\* predict() was called in this step
PredictCalled == result'.callee = "predict" /\ result.callee = "none"

\* C26: predict() is read-only: whatever the input and the state, a call
\* leaves model, label_encoder, scaler and is_trained (and the files) as they
\* were, so that a prediction made after it returns, for the distribution the
\* network answered, what it would have returned before it.
C26_PredictReadOnly ==
    [][PredictCalled =>
         /\ SelfAfter = Self
         /\ UNCHANGED <<file_keras, file_h5, file_pkl>>
         /\ result'.dist # NoDist =>
              Predict(SelfAfter, ProbeInput, result'.dist, "none")
                = Predict(Self, ProbeInput, result'.dist, "none")]_vars

\* a Trained instance made a prediction below the threshold and still holds
\* its network, encoder and scaler
C26_Witness ==
    /\ result.callee = "predict"
    /\ result.ret.kind = "low_confidence"
    /\ is_trained
    /\ model # None_model /\ label_encoder # None_encoder /\ scaler # None_scaler

\* C27: train() fails at the split whenever some letter of the loaded
\* dataset has fewer than 2 samples, and whenever the split succeeds every
\* letter of the dataset has at least one sample in the training partition
\* and at least one in the test partition.
C27_EveryLetterInBothPartitions ==
    probe.fn = "train_test_split" =>
        /\ (\E l \in LettersOf(probe.data) : probe.data[l] < 2) => ~probe.ret.ok
        /\ probe.ret.ok =>
             \A l \in LettersOf(probe.data) :
                probe.ret.train[l] >= 1 /\ probe.ret.test[l] >= 1

\* C28: in every reachable state of an ASLLandmarkModel instance, is_trained
\* true implies that model, label_encoder and scaler are all set.
C28_TrainedHasAllParts ==
    is_trained =>
        /\ model # None_model
        /\ label_encoder # None_encoder
        /\ scaler # None_scaler

\* a Trained instance went through a load_model() that failed on an
\* unreadable network file, and is still Trained with all its parts
C28_Witness ==
    /\ last.op = "load_model" /\ ~last.ok
    /\ is_trained
    /\ model # None_model /\ label_encoder # None_encoder /\ scaler # None_scaler

\* C30: whenever load_model(P) returns True, the network and the
\* preprocessors it restored were written by the same save_model(P) call,
\* whatever the history of save_model calls on P, one interrupted between the
\* two files included.
C30_LoadedFromOneSave ==
    (LoadCalled(last) /\ last.ok) =>
        LET net == IF file_keras.state # "absent" THEN file_keras ELSE file_h5
        IN  /\ model.run = net.run
            /\ label_encoder.run = file_pkl.enc_run
            /\ net.save = file_pkl.save

====
